---- MODULE Spec2Model ----
(***************************************************************************)
(* Model of Repo.Sync (src/repo.go): reconciliation of the filtered        *)
(* package list of an upstream repository against the local package        *)
(* directory, scheduling of download requests, the download pool, the      *)
(* per-response GPG verification loop and the rebuild of the repository    *)
(* index from a fresh enumeration of the package directory.                *)
(***************************************************************************)
EXTENDS Integers, Sequences, FiniteSets, TLC

\* ------------------------------------------------------------------ bounds
\* Largest number of entries of the (filtered) package list.
MaxPkgs == 2
\* Largest number of files another process drops into the package directory
\* between the download phase and the index rebuild.
MaxOob == 1

\* Width of the download pool (download(reqs, DownloadThreads)).
DownloadThreads == 2

\* ------------------------------------------------------- the input domains
\* Location hrefs of upstream packages, as path components.
Hrefs == { <<"x", "p.rpm">>, <<"y", "p.rpm">>, <<"q.rpm">> }

\* filepath.Base: the last component of a path.
Base(path) == path[Len(path)]

\* File names of the package directory, in the lexical order in which
\* ioutil.ReadDir and filepath.Glob return them, with their extensions.
NameOrder == << "notes.txt", "p.rpm", "q.rpm" >>
Names == { NameOrder[i] : i \in 1..Len(NameOrder) }
Ext(name) == IF name = "notes.txt" THEN "txt" ELSE "rpm"

\* What is wrong with a catalog entry, if anything: its checksum cannot be
\* read, its checksum is not a hex string, its checksum algorithm is not
\* supported, or its URL cannot be made into a request.
Defects == { "none", "sumerr", "badhex", "badalgo", "badurl" }

\* Size and digest the upstream metadata declares for a location.
DeclaredSize(href) == 2
DeclaredSum(href) == IF href = <<"y", "p.rpm">> THEN "d2" ELSE "d1"

\* A PackageEntry of the primary database: key is its pkgKey (its position).
MkEntry(k, href, defect) ==
  [ key    |-> k,
    href   |-> href,
    size   |-> DeclaredSize(href),
    sum    |-> IF defect = "badhex" THEN "zz" ELSE DeclaredSum(href),
    sumErr |-> (defect = "sumerr"),
    ctype  |-> IF defect = "badalgo" THEN "bogus" ELSE "sha256",
    urlOK  |-> (defect # "badurl") ]

\* The entries of the primary database: every location without defect, and
\* the location x/p.rpm with each defect.
Entries ==
  { [ href |-> h, defect |-> "none" ] : h \in Hrefs }
    \cup { [ href |-> <<"x", "p.rpm">>, defect |-> d ] : d \in Defects }

\* The package lists of at most MaxPkgs entries, at most one of them
\* defective, which is then the first.
PackageLists ==
  UNION { { [ i \in 1..n |-> MkEntry(i, es[i].href, es[i].defect) ] :
            es \in { f \in [1..n -> Entries] :
                       \A i \in 1..n : f[i].defect # "none" => i = 1 } } :
          n \in 0..MaxPkgs }

Exists(d, name) == name \in DOMAIN d

\* The files a package directory may hold before the run: a partial file, a
\* file with the digest of one of the upstream packages, an oversized file.
LocalFiles ==
  { [ size |-> 1, sum |-> "d0", by |-> "pre", key |-> 0 ],
    [ size |-> 2, sum |-> "d1", by |-> "pre", key |-> 0 ],
    [ size |-> 2, sum |-> "d2", by |-> "pre", key |-> 0 ],
    [ size |-> 3, sum |-> "d0", by |-> "pre", key |-> 0 ] }

\* A file that is no package, which the package directory holds throughout.
OtherFile == [ size |-> 1, sum |-> "d0", by |-> "pre", key |-> 0 ]

\* The package directories before the run: notes.txt, and any local file or
\* none as p.rpm.
Directories ==
  { [ n \in S |-> IF n = "p.rpm" THEN f ELSE OtherFile ] :
      S \in { {"notes.txt"}, {"notes.txt", "p.rpm"} }, f \in LocalFiles }

VARIABLES
  pc,         \* position of the run: the loading of the repository, then Sync
  repo,       \* the repository as declared: Repo.ID, Repo.MirrorURL, Repo.BaseURL
  gpgCheck,   \* Repo.GPGCheck
  primarydb,  \* the filtered package list the primary database yields
  disk,       \* the package directory: file name -> file
  before,     \* the package directory as Sync found it
  files,      \* the directory listing taken by ioutil.ReadDir
  packages,   \* the package list loaded by Sync
  missing,    \* the packages scheduled for download
  reqs,       \* the download requests built from missing
  todo,       \* download pool: indices of reqs not yet taken by a worker
  inflight,   \* download pool: indices of reqs being transferred
  responses,  \* download pool: responses waiting for the consumer
  consumed,   \* responses handled by the verification loop
  errors,     \* the lines logged with Errorf
  removed,    \* the files deleted with os.Remove
  verified,   \* the files that passed rpm.GPGCheck
  written,    \* the file names written by the download client
  globbed,    \* the files enumerated by filepath.Glob
  index,      \* the packages written to the rebuilt index
  oob,        \* number of files dropped in by another process
  err,        \* the error met while acquiring the catalog, or "nil"
  unparsable  \* the enumerated file rpm.OpenPackageFile failed on, if any

vars == << pc, repo, gpgCheck, primarydb, disk, before, files, packages,
           missing, reqs, todo, inflight, responses, consumed, errors, removed,
           verified, written, globbed, index, oob, err, unparsable >>

\* The inputs of a run, the results of reconciliation, the download pool
\* and the results of the rebuild.
inputVars == << repo, gpgCheck, primarydb, before >>
listVars == << files, packages, missing >>
poolVars == << todo, inflight, responses >>
indexVars == << globbed, index, oob, unparsable >>

\* ----------------------------------------------------------------- helpers
Remove(d, name) == [ n \in DOMAIN d \ {name} |-> d[n] ]

Put(d, name, file) == [ n \in DOMAIN d \cup {name} |-> IF n = name THEN file ELSE d[n] ]

\* ioutil.ReadDir: the names and sizes of the directory's files, by name.
ReadDir(d) ==
  LET present == SelectSeq(NameOrder, LAMBDA n : Exists(d, n))
  IN  [ i \in 1..Len(present) |-> [ name |-> present[i], size |-> d[present[i]].size ] ]

\* ValidateFileChecksum(path, sum, type): "err" when the file cannot be
\* digested with the algorithm, "mismatch" when its digest differs from sum.
ValidateFileChecksum(d, name, sum, ctype) ==
  IF ~Exists(d, name) \/ ctype # "sha256" THEN "err"
  ELSE IF d[name].sum = sum THEN "ok" ELSE "mismatch"

\* The repositories a Yumfile may declare: with or without ID, mirror list
\* and base URL; and those declared without a mirror list.
Repos == [ ID : { "", "base" }, MirrorURL : { "", "http://m" }, BaseURL : { "", "http://b" } ]
BaseURLRepos == { c \in Repos : c.MirrorURL = "" }

\* Repo.Validate: the first syntax error of the declaration, or "nil".
\* Faulty variant: a repository with a base URL and no mirror list is refused.
ValidateNeedsBoth(c) ==
  IF c.ID = "" THEN "no ID"
  ELSE IF c.MirrorURL = "" \/ c.BaseURL = "" THEN "no mirror list or base URL"
  ELSE "nil"

Validate(c) ==
  IF c.ID = "" THEN "no ID"
  ELSE IF c.MirrorURL = "" /\ c.BaseURL = "" THEN "no mirror list or base URL"
  ELSE "nil"

\* The state before the repository is loaded, whatever the declaration and
\* the primary database.
Fresh ==
  /\ pc = "config"
  /\ gpgCheck \in BOOLEAN
  /\ disk \in Directories
  /\ before = disk
  /\ files = << >>
  /\ packages = << >>
  /\ missing = << >>
  /\ reqs = << >>
  /\ todo = {}
  /\ inflight = {}
  /\ responses = {}
  /\ consumed = << >>
  /\ errors = {}
  /\ removed = {}
  /\ verified = {}
  /\ written = {}
  /\ globbed = << >>
  /\ index = << >>
  /\ oob = 0
  /\ err = "nil"
  /\ unparsable = {}

Init ==
  /\ repo \in BaseURLRepos
  /\ primarydb \in PackageLists
  /\ Fresh

\* The runs over every declaration, with package lists of at most one entry.
InitConfig ==
  /\ repo \in Repos
  /\ primarydb \in { l \in PackageLists : Len(l) <= 1 }
  /\ Fresh

\* The runs from a package directory that holds no package file, so that
\* every entry of the package list is missing.
InitEmpty ==
  /\ Init
  /\ DOMAIN disk = { "notes.txt" }

\* The loading of the Yumfile validates the repository: a syntax error is
\* fatal, and Sync is called for a valid repository only.
ValidateRepo ==
  /\ pc = "config"
  /\ pc' = IF Validate(repo) = "nil" THEN "start" ELSE "invalid"
  /\ UNCHANGED << inputVars, err, disk, listVars, reqs, poolVars, consumed,
                  errors, removed, verified, written, indexVars >>

\* Sync, lines 92-135: key ring, metadata cache, primary database, package
\* directory, directory listing and package list; any failure returns it.
AcquireErrors == { "keyring", "cache", "primarydb", "mkdir", "readdir", "packages" }

\* Faulty variant: a primary database whose packages cannot be read is taken
\* as one without packages.
SyncStartIgnoresPackagesError ==
  /\ pc = "start"
  /\ \E e \in AcquireErrors \cup {"nil"} :
       /\ err' = e
       /\ IF e \notin {"nil", "packages"} /\ (e = "keyring" => gpgCheck)
          THEN /\ pc' = "error"
               /\ UNCHANGED << files, packages >>
          ELSE /\ e \in {"nil", "packages"}
               /\ pc' = "reconcile"
               /\ files' = ReadDir(disk)
               /\ packages' = IF e = "nil" THEN primarydb ELSE << >>
  /\ UNCHANGED << inputVars, disk, missing, reqs, poolVars, consumed, errors,
                  removed, verified, written, indexVars >>

SyncStart ==
  /\ pc = "start"
  /\ \E e \in AcquireErrors \cup {"nil"} :
       /\ err' = e
       /\ IF e # "nil" /\ (e = "keyring" => gpgCheck)
          THEN /\ pc' = "error"
               /\ UNCHANGED << files, packages >>
          ELSE /\ e = "nil"
               /\ pc' = "reconcile"
               /\ files' = ReadDir(disk)
               /\ packages' = primarydb
  /\ UNCHANGED << inputVars, disk, missing, reqs, poolVars, consumed, errors,
                  removed, verified, written, indexVars >>

\* --------------------------------------------------------- reconciliation
\* The search of the directory listing for one package (lines 145-181), from
\* the i-th file on: whether a valid file was found, and the message logged.
\* Faulty variant: a file of the declared size is taken as valid, unchecked.
RECURSIVE SearchLocalSizeOnly(_, _, _, _)
SearchLocalSizeOnly(p, fs, d, i) ==
  IF i > Len(fs) THEN [ found |-> FALSE, logged |-> {} ]
  ELSE IF fs[i].name = Base(p.href)
  THEN IF fs[i].size = p.size
       THEN [ found |-> TRUE, logged |-> {} ]
       ELSE IF fs[i].size > p.size
       THEN [ found |-> FALSE, logged |-> {"Existing file is larger"} ]
       ELSE SearchLocalSizeOnly(p, fs, d, i + 1)
  ELSE SearchLocalSizeOnly(p, fs, d, i + 1)

\* Faulty variant: a checksum mismatch is logged but the file is kept as found.
RECURSIVE SearchLocalKeepsMismatch(_, _, _, _)
SearchLocalKeepsMismatch(p, fs, d, i) ==
  IF i > Len(fs) THEN [ found |-> FALSE, logged |-> {} ]
  ELSE IF fs[i].name = Base(p.href)
  THEN IF fs[i].size = p.size
       THEN IF p.sumErr
            THEN [ found |-> FALSE, logged |-> {"Failed to compute checksum"} ]
            ELSE LET v == ValidateFileChecksum(d, Base(p.href), p.sum, p.ctype)
                 IN  IF v = "mismatch"
                     THEN [ found |-> TRUE,
                            logged |-> {"Existing file failed checksum validation"} ]
                     ELSE IF v # "ok"
                     THEN [ found |-> FALSE, logged |-> {"Error validating checksum"} ]
                     ELSE [ found |-> TRUE, logged |-> {} ]
       ELSE IF fs[i].size > p.size
       THEN [ found |-> FALSE, logged |-> {"Existing file is larger"} ]
       ELSE SearchLocalKeepsMismatch(p, fs, d, i + 1)
  ELSE SearchLocalKeepsMismatch(p, fs, d, i + 1)

\* Faulty variant: a file whose checksum cannot be validated is kept as found.
RECURSIVE SearchLocalTrustsUnverifiable(_, _, _, _)
SearchLocalTrustsUnverifiable(p, fs, d, i) ==
  IF i > Len(fs) THEN [ found |-> FALSE, logged |-> {} ]
  ELSE IF fs[i].name = Base(p.href)
  THEN IF fs[i].size = p.size
       THEN IF p.sumErr
            THEN [ found |-> TRUE, logged |-> {"Failed to compute checksum"} ]
            ELSE LET v == ValidateFileChecksum(d, Base(p.href), p.sum, p.ctype)
                 IN  IF v = "mismatch"
                     THEN [ found |-> FALSE,
                            logged |-> {"Existing file failed checksum validation"} ]
                     ELSE IF v # "ok"
                     THEN [ found |-> TRUE, logged |-> {"Error validating checksum"} ]
                     ELSE [ found |-> TRUE, logged |-> {} ]
       ELSE IF fs[i].size > p.size
       THEN [ found |-> FALSE, logged |-> {"Existing file is larger"} ]
       ELSE SearchLocalTrustsUnverifiable(p, fs, d, i + 1)
  ELSE SearchLocalTrustsUnverifiable(p, fs, d, i + 1)

RECURSIVE SearchLocal(_, _, _, _)
SearchLocal(p, fs, d, i) ==
  IF i > Len(fs) THEN [ found |-> FALSE, logged |-> {} ]
  ELSE IF fs[i].name = Base(p.href)
  THEN IF fs[i].size = p.size
       THEN IF p.sumErr
            THEN [ found |-> FALSE, logged |-> {"Failed to compute checksum"} ]
            ELSE LET v == ValidateFileChecksum(d, Base(p.href), p.sum, p.ctype)
                 IN  IF v = "mismatch"
                     THEN [ found |-> FALSE,
                            logged |-> {"Existing file failed checksum validation"} ]
                     ELSE IF v # "ok"
                     THEN [ found |-> FALSE, logged |-> {"Error validating checksum"} ]
                     ELSE [ found |-> TRUE, logged |-> {} ]
       ELSE IF fs[i].size > p.size
       THEN [ found |-> FALSE, logged |-> {"Existing file is larger"} ]
       ELSE SearchLocal(p, fs, d, i + 1)
  ELSE SearchLocal(p, fs, d, i + 1)

\* The list of missing packages built by the loop of lines 139-189 over the
\* packages from the i-th on.
RECURSIVE BuildMissing(_, _, _, _)
BuildMissing(pkgs, fs, d, i) ==
  IF i > Len(pkgs) THEN << >>
  ELSE IF ~SearchLocal(pkgs[i], fs, d, 1).found
       THEN << pkgs[i] >> \o BuildMissing(pkgs, fs, d, i + 1)
       ELSE BuildMissing(pkgs, fs, d, i + 1)

ReconcileLog(pkgs, fs, d) ==
  UNION { { [ msg |-> m, key |-> pkgs[i].key ] : m \in SearchLocal(pkgs[i], fs, d, 1).logged } :
          i \in 1..Len(pkgs) }

\* The base names of the packages for which the search logs the message.
NamesLogged(m, pkgs, fs, d) ==
  { Base(pkgs[i].href) :
      i \in { j \in 1..Len(pkgs) : m \in SearchLocal(pkgs[j], fs, d, 1).logged } }

\* Faulty variant: the local file that is larger than declared is deleted.
ReconcileDropsOversized ==
  /\ pc = "reconcile"
  /\ missing' = BuildMissing(packages, files, disk, 1)
  /\ errors' = errors \cup ReconcileLog(packages, files, disk)
  /\ disk' = LET gone == NamesLogged("Existing file is larger", packages, files, disk)
             IN  [ n \in DOMAIN disk \ gone |-> disk[n] ]
  /\ pc' = "schedule"
  /\ UNCHANGED << inputVars, err, files, packages, reqs, poolVars, consumed,
                  removed, verified, written, indexVars >>

\* Faulty variant: the local file that fails checksum validation is deleted.
ReconcileDeletesCorrupt ==
  /\ pc = "reconcile"
  /\ missing' = BuildMissing(packages, files, disk, 1)
  /\ errors' = errors \cup ReconcileLog(packages, files, disk)
  /\ disk' = LET gone == NamesLogged("Existing file failed checksum validation",
                                     packages, files, disk)
             IN  [ n \in DOMAIN disk \ gone |-> disk[n] ]
  /\ pc' = "schedule"
  /\ UNCHANGED << inputVars, err, files, packages, reqs, poolVars, consumed,
                  removed, verified, written, indexVars >>

Reconcile ==
  /\ pc = "reconcile"
  /\ missing' = BuildMissing(packages, files, disk, 1)
  /\ errors' = errors \cup ReconcileLog(packages, files, disk)
  /\ pc' = "schedule"
  /\ UNCHANGED << inputVars, err, disk, files, packages, reqs, poolVars, consumed,
                  removed, verified, written, indexVars >>

\* ------------------------------------------------------------- scheduling
\* hex.DecodeString succeeds on the hexadecimal strings.
HexStrings == { "d0", "d1", "d2" }

\* Why no request is made for a missing package (lines 196-214), or "nil".
RequestError(p) ==
  IF ~p.urlOK THEN "Error requesting package"
  ELSE IF p.sumErr THEN "Error reading checksum"
  ELSE IF p.sum \notin HexStrings THEN "Error decoding checksum"
  ELSE "nil"

\* The grab.Request for the i-th missing package.
NewRequest(p, i) ==
  [ label    |-> i,
    key      |-> p.key,
    filename |-> Base(p.href),
    size     |-> p.size,
    sum      |-> p.sum,
    ctype    |-> p.ctype ]

\* The requests built by the loop of lines 194-216 from the i-th missing
\* package on.
\* Faulty variant: the loop stops at the first package no request can be made for.
RECURSIVE BuildRequestsStopAtError(_, _)
BuildRequestsStopAtError(miss, i) ==
  IF i > Len(miss) \/ RequestError(miss[i]) # "nil" THEN << >>
  ELSE << NewRequest(miss[i], i) >> \o BuildRequestsStopAtError(miss, i + 1)

RECURSIVE BuildRequests(_, _)
BuildRequests(miss, i) ==
  IF i > Len(miss) THEN << >>
  ELSE IF RequestError(miss[i]) = "nil"
       THEN << NewRequest(miss[i], i) >> \o BuildRequests(miss, i + 1)
       ELSE BuildRequests(miss, i + 1)

ScheduleLog(miss) ==
  { [ msg |-> RequestError(miss[i]), key |-> miss[i].key ] :
      i \in { j \in 1..Len(miss) : RequestError(miss[j]) # "nil" } }

Schedule ==
  /\ pc = "schedule"
  /\ reqs' = BuildRequests(missing, 1)
  /\ errors' = errors \cup ScheduleLog(missing)
  /\ todo' = 1..Len(reqs')
  /\ consumed' = [ i \in 1..Len(reqs') |-> 0 ]
  /\ pc' = "download"
  /\ UNCHANGED << inputVars, err, disk, listVars, inflight, responses, removed,
                  verified, written, indexVars >>

\* ----------------------------------------------------------- download pool
\* download(reqs, DownloadThreads): a worker is busy from taking a request
\* until the consumer has received its response.
Busy == Cardinality(inflight) + Cardinality(responses)

Lowest(S) == CHOOSE i \in S : \A j \in S : i <= j

WorkerStart ==
  /\ pc = "download"
  /\ todo # {}
  /\ Busy < DownloadThreads
  /\ todo' = todo \ { Lowest(todo) }
  /\ inflight' = inflight \cup { Lowest(todo) }
  /\ UNCHANGED << pc, inputVars, err, disk, listVars, reqs, responses, consumed,
                  errors, removed, verified, written, indexVars >>

\* What the download client leaves on disk for a request.
Downloaded(r) == [ size |-> r.size, sum |-> r.sum, by |-> "sync", key |-> r.key ]
Partial(r) == [ size |-> r.size - 1, sum |-> "d0", by |-> "sync", key |-> r.key ]

\* A transfer ends: with the verified file in place, or with an error that
\* leaves the destination as it was or holding a part of the file.
WorkerFinish(i) ==
  /\ pc = "download"
  /\ i \in inflight
  /\ inflight' = inflight \ {i}
  /\ \E outcome \in { "ok", "failed", "partial" } :
       /\ responses' = responses \cup { [ req |-> i, error |-> (outcome # "ok") ] }
       /\ disk' = CASE outcome = "ok" -> Put(disk, reqs[i].filename, Downloaded(reqs[i]))
                    [] outcome = "partial" -> Put(disk, reqs[i].filename, Partial(reqs[i]))
                    [] OTHER -> disk
       /\ written' = IF outcome = "failed" THEN written
                     ELSE written \cup { reqs[i].filename }
  /\ UNCHANGED << pc, inputVars, err, listVars, reqs, todo, consumed, errors,
                  removed, verified, indexVars >>

\* The channel of responses is closed once every request has been attempted
\* and its response sent.
ChannelClosed == todo = {} /\ inflight = {}

\* ------------------------------------------------------ verification loop
\* What the loop body does with one response (lines 223-248), given whether
\* os.Open, rpm.GPGCheck and os.Remove fail: the messages logged, whether
\* the file passed the GPG check, whether it is deleted.
\* Faulty variant: a file that fails the GPG check is logged and left in place.
VerifyKeepsBadFile(resp, gpg, d, openErr, sigErr, rmErr) ==
  IF resp.error
  THEN [ logged |-> {"Error downloading"}, passed |-> FALSE, remove |-> FALSE ]
  ELSE IF ~gpg
  THEN [ logged |-> {}, passed |-> FALSE, remove |-> FALSE ]
  ELSE IF openErr \/ ~Exists(d, reqs[resp.req].filename)
  THEN [ logged |-> {"Error reading for GPG check"}, passed |-> FALSE, remove |-> FALSE ]
  ELSE IF ~sigErr
  THEN [ logged |-> {}, passed |-> TRUE, remove |-> FALSE ]
  ELSE [ logged |-> {"GPG check validation failed"}, passed |-> FALSE, remove |-> FALSE ]

Verify(resp, gpg, d, openErr, sigErr, rmErr) ==
  IF resp.error
  THEN [ logged |-> {"Error downloading"}, passed |-> FALSE, remove |-> FALSE ]
  ELSE IF ~gpg
  THEN [ logged |-> {}, passed |-> FALSE, remove |-> FALSE ]
  ELSE IF openErr \/ ~Exists(d, reqs[resp.req].filename)
  THEN [ logged |-> {"Error reading for GPG check"}, passed |-> FALSE, remove |-> FALSE ]
  ELSE IF ~sigErr
  THEN [ logged |-> {}, passed |-> TRUE, remove |-> FALSE ]
  ELSE IF rmErr
  THEN [ logged |-> {"GPG check validation failed", "Error deleting"},
         passed |-> FALSE, remove |-> FALSE ]
  ELSE [ logged |-> {"GPG check validation failed"}, passed |-> FALSE, remove |-> TRUE ]

\* The identity of the file a name holds.
FileId(d, name) == [ name |-> name, by |-> d[name].by, key |-> d[name].key ]

\* Faulty variant: the loop returns the error of the first failed download.
HandleResponseAbortsOnError ==
  /\ pc = "download"
  /\ \E resp \in responses, openErr \in BOOLEAN, sigErr \in BOOLEAN, rmErr \in BOOLEAN :
       LET v == Verify(resp, gpgCheck, disk, openErr, sigErr, rmErr)
           name == reqs[resp.req].filename
       IN  /\ responses' = responses \ {resp}
           /\ consumed' = [ consumed EXCEPT ![resp.req] = @ + 1 ]
           /\ errors' = errors \cup { [ msg |-> m, key |-> reqs[resp.req].key ] : m \in v.logged }
           /\ disk' = IF v.remove THEN Remove(disk, name) ELSE disk
           /\ removed' = IF v.remove THEN removed \cup { FileId(disk, name) } ELSE removed
           /\ verified' = IF v.passed THEN verified \cup { FileId(disk, name) } ELSE verified
           /\ pc' = IF resp.error THEN "error" ELSE pc
  /\ UNCHANGED << inputVars, err, listVars, reqs, todo, inflight, written, indexVars >>

\* Faulty variant: the request of a failed download is put back for another
\* attempt.
HandleResponseRetries ==
  /\ pc = "download"
  /\ \E resp \in responses, openErr \in BOOLEAN, sigErr \in BOOLEAN, rmErr \in BOOLEAN :
       LET v == Verify(resp, gpgCheck, disk, openErr, sigErr, rmErr)
           name == reqs[resp.req].filename
       IN  /\ responses' = responses \ {resp}
           /\ todo' = IF resp.error THEN todo \cup {resp.req} ELSE todo
           /\ consumed' = IF resp.error THEN consumed
                          ELSE [ consumed EXCEPT ![resp.req] = @ + 1 ]
           /\ errors' = errors \cup { [ msg |-> m, key |-> reqs[resp.req].key ] : m \in v.logged }
           /\ disk' = IF v.remove THEN Remove(disk, name) ELSE disk
           /\ removed' = IF v.remove THEN removed \cup { FileId(disk, name) } ELSE removed
           /\ verified' = IF v.passed THEN verified \cup { FileId(disk, name) } ELSE verified
  /\ UNCHANGED << pc, inputVars, err, listVars, reqs, inflight, written, indexVars >>

HandleResponse ==
  /\ pc = "download"
  /\ \E resp \in responses, openErr \in BOOLEAN, sigErr \in BOOLEAN, rmErr \in BOOLEAN :
       LET v == Verify(resp, gpgCheck, disk, openErr, sigErr, rmErr)
           name == reqs[resp.req].filename
       IN  /\ responses' = responses \ {resp}
           /\ consumed' = [ consumed EXCEPT ![resp.req] = @ + 1 ]
           /\ errors' = errors \cup { [ msg |-> m, key |-> reqs[resp.req].key ] : m \in v.logged }
           /\ disk' = IF v.remove THEN Remove(disk, name) ELSE disk
           /\ removed' = IF v.remove THEN removed \cup { FileId(disk, name) } ELSE removed
           /\ verified' = IF v.passed THEN verified \cup { FileId(disk, name) } ELSE verified
  /\ UNCHANGED << pc, inputVars, err, listVars, reqs, todo, inflight, written,
                  indexVars >>

\* The loop over the responses (line 222) ends when the channel is closed
\* and no response is left in it.
\* Faulty variant: the loop ends as soon as no response is waiting.
LoopDoneWhenIdle == responses = {}

LoopDone == ChannelClosed /\ responses = {}

LoopExit ==
  /\ pc = "download"
  /\ LoopDone
  /\ pc' = "createrepo"
  /\ UNCHANGED << inputVars, err, disk, listVars, reqs, poolVars, consumed, errors,
                  removed, verified, written, indexVars >>

\* ----------------------------------------------------------- index rebuild
\* Another process drops a package file into the package directory after
\* the download phase and before the directory is enumerated.
OutOfBandFile == [ size |-> 2, sum |-> "d0", by |-> "oob", key |-> 0 ]

OutOfBandAdd ==
  /\ pc = "createrepo"
  /\ oob < MaxOob
  /\ \E name \in Names \ DOMAIN disk : disk' = Put(disk, name, OutOfBandFile)
  /\ oob' = oob + 1
  /\ UNCHANGED << pc, inputVars, err, listVars, reqs, poolVars, consumed, errors,
                  removed, verified, written, globbed, index, unparsable >>

\* filepath.Glob(packagedir/*.rpm): the names with extension rpm, by name.
\* Faulty variant: only the files downloaded in this run are enumerated.
GlobDownloaded(d) ==
  SelectSeq(NameOrder, LAMBDA n : Exists(d, n) /\ Ext(n) = "rpm" /\ d[n].by = "sync")

\* Faulty variant: the files are enumerated in the order of their creation,
\* those of this run's downloads last.
GlobByCreation(d) ==
  SelectSeq(NameOrder, LAMBDA n : Exists(d, n) /\ Ext(n) = "rpm" /\ d[n].by # "sync")
    \o SelectSeq(NameOrder, LAMBDA n : Exists(d, n) /\ Ext(n) = "rpm" /\ d[n].by = "sync")

Glob(d) == SelectSeq(NameOrder, LAMBDA n : Exists(d, n) /\ Ext(n) = "rpm")

\* The entries written by the loop of lines 265-272 over the enumerated
\* files from the i-th on, up to the first file that cannot be parsed.
RECURSIVE InsertPackages(_, _, _, _)
InsertPackages(d, names, bad, i) ==
  IF i > Len(names) \/ names[i] \in bad THEN << >>
  ELSE << FileId(d, names[i]) >> \o InsertPackages(d, names, bad, i + 1)

\* createrepo, the enumeration of the package directory and the insertion
\* of every enumerated file (lines 252-275): a createrepo error or a file
\* that cannot be parsed panics, otherwise Sync returns nil.
\* PanicOn(err), given whether err is an error: whether Sync panics.
PanicOn(failed) == failed

\* Faulty variant: a file that cannot be parsed is left out of the index and
\* Sync returns nil.
RebuildSkipsUnparsable ==
  /\ pc = "createrepo"
  /\ \E failed \in BOOLEAN, bad \in SUBSET { n \in DOMAIN disk : Ext(n) = "rpm" } :
       /\ unparsable' = bad
       /\ IF PanicOn(failed)
          THEN /\ bad = {}
               /\ pc' = "panic"
               /\ UNCHANGED << globbed, index >>
          ELSE /\ globbed' = Glob(disk)
               /\ index' = LET good == SelectSeq(globbed', LAMBDA n : n \notin bad)
                            IN  [ i \in 1..Len(good) |-> FileId(disk, good[i]) ]
               /\ pc' = "done"
  /\ UNCHANGED << inputVars, err, disk, listVars, reqs, poolVars, consumed, errors,
                  removed, verified, written, oob >>

Rebuild ==
  /\ pc = "createrepo"
  /\ \E failed \in BOOLEAN, bad \in SUBSET { n \in DOMAIN disk : Ext(n) = "rpm" } :
       IF PanicOn(failed)
       THEN /\ bad = {}
            /\ pc' = "panic"
            /\ UNCHANGED << globbed, index, unparsable >>
       ELSE /\ globbed' = Glob(disk)
            /\ index' = InsertPackages(disk, globbed', bad, 1)
            /\ unparsable' = IF Len(index') < Len(globbed')
                             THEN { globbed'[Len(index') + 1] } ELSE {}
            /\ pc' = IF PanicOn(bad # {}) THEN "panic" ELSE "done"
  /\ UNCHANGED << inputVars, err, disk, listVars, reqs, poolVars, consumed, errors,
                  removed, verified, written, oob >>

Next ==
  \/ ValidateRepo
  \/ SyncStart
  \/ Reconcile
  \/ Schedule
  \/ WorkerStart
  \/ \E i \in 1..MaxPkgs : WorkerFinish(i)
  \/ HandleResponse
  \/ LoopExit
  \/ OutOfBandAdd
  \/ Rebuild

Spec == Init /\ [][Next]_vars

\* The runs over every declaration of the repository.
SpecConfig == InitConfig /\ [][Next]_vars

\* The runs in which the goroutines of the download pool and of Sync are
\* scheduled and every transfer in flight ends, in success or in failure,
\* from a package directory without package files.
Fairness ==
  /\ WF_vars(WorkerStart)
  /\ WF_vars(\E i \in 1..MaxPkgs : WorkerFinish(i))
  /\ WF_vars(HandleResponse)
  /\ WF_vars(LoopExit)

LiveSpec == InitEmpty /\ [][Next]_vars /\ Fairness

\* ------------------------------------------------------------------ claims
\* The packages loaded by Sync, and the local file of a package in the
\* directory as Sync found it.
Pkgs == { packages[i] : i \in DOMAIN packages }
HasLocal(p) == Exists(before, Base(p.href))
Local(p) == before[Base(p.href)]

\* The dispositions of a package.
IsMissing(p) == ~HasLocal(p)
IsTooLarge(p) == HasLocal(p) /\ Local(p).size > p.size
IsIncomplete(p) == HasLocal(p) /\ Local(p).size < p.size
SameSize(p) == HasLocal(p) /\ Local(p).size = p.size
ChecksumReadable(p) == ~p.sumErr /\ p.ctype = "sha256"
ChecksumMatches(p) == ChecksumReadable(p) /\ Local(p).sum = p.sum
IsValid(p) == SameSize(p) /\ ChecksumMatches(p)
IsCorrupt(p) == SameSize(p) /\ ChecksumReadable(p) /\ Local(p).sum # p.sum

\* The phases of Sync that are over.
Reconciled == pc \notin { "config", "invalid", "start", "reconcile", "error" }
Scheduled == Reconciled /\ pc # "schedule"
DownloadOver == pc \in { "createrepo", "done", "panic" }

InMissing(p) == \E i \in DOMAIN missing : missing[i] = p
RequestsFor(p) == { i \in DOMAIN reqs : reqs[i].key = p.key }
Logged(m, p) == [ msg |-> m, key |-> p.key ] \in errors

\* No request can be made for a package: its URL, its checksum or the hex
\* decoding of its checksum fails before dispatch.
PreDispatchFails(p) == ~p.urlOK \/ p.sumErr \/ p.sum \notin HexStrings

RECURSIVE Total(_, _)
Total(f, i) == IF i > Len(f) THEN 0 ELSE f[i] + Total(f, i + 1)

\* C1 (as stated): a package whose local file is larger than declared is
\* not put on the list of missing packages, no download request is made for
\* it, and its local file is neither deleted nor written by a download.
C1_TooLargeNotFetched ==
  \A p \in Pkgs :
    IsTooLarge(p) =>
      /\ Reconciled => ~InMissing(p)
      /\ RequestsFor(p) = {}
      /\ Base(p.href) \notin written
      /\ Exists(disk, Base(p.href))

\* C2: once reconciliation is over, a package is kept off the list of
\* missing packages, and gets no download request, if and only if a local
\* file of its base name exists, has the declared size and has the declared
\* checksum under the declared algorithm.
C2_ValidIffSizeAndChecksum ==
  Reconciled =>
    \A p \in Pkgs :
      /\ ~InMissing(p) <=> IsValid(p)
      /\ IsValid(p) => RequestsFor(p) = {}

\* C2 witness: one package is kept for its valid local file while another
\* of the same base name and size, whose checksum differs, is fetched.
C2_Witness ==
  /\ Scheduled
  /\ \E p, q \in Pkgs :
       /\ IsValid(p) /\ ~InMissing(p)
       /\ SameSize(q) /\ ~ChecksumMatches(q) /\ RequestsFor(q) # {}

\* C3 (as stated): once the requests are built, a package whose local file
\* has the declared size and another checksum has exactly one request.
C3_CorruptOneRequest ==
  Scheduled => \A p \in Pkgs : IsCorrupt(p) => Cardinality(RequestsFor(p)) = 1

\* C3 (amended): such a package is logged as failing checksum validation, is
\* on the list of missing packages exactly once, and has exactly one request
\* unless its URL or the hex decoding of its checksum fails, and then none.
C3_CorruptRefetched ==
  Scheduled =>
    \A p \in Pkgs :
      IsCorrupt(p) =>
        /\ Logged("Existing file failed checksum validation", p)
        /\ Cardinality({ i \in DOMAIN missing : missing[i].key = p.key }) = 1
        /\ Cardinality(RequestsFor(p)) = IF PreDispatchFails(p) THEN 0 ELSE 1

\* C3 witness: a request has been built for a corrupt package.
C3_Witness ==
  /\ Scheduled
  /\ \E p \in Pkgs : IsCorrupt(p) /\ Cardinality(RequestsFor(p)) = 1

\* C4 (as stated): the list of missing packages is the packages that are
\* missing, incomplete or corrupt, each once, in catalog order.
C4_FetchSetExact ==
  Reconciled =>
    missing = SelectSeq(packages,
                LAMBDA p : IsMissing(p) \/ IsIncomplete(p)
                             \/ (SameSize(p) /\ ~ChecksumMatches(p)))

LoggedNow(m, i) ==
  [ msg |-> m, key |-> reqs[i].key ] \in errors' \ errors

\* C6 (as stated): a downloaded file whose GPG check fails is absent from
\* the package directory once its response is handled, and without GPGCheck
\* no file leaves the package directory.
C6_SigFailureDeletes ==
  [][ /\ \A i \in DOMAIN reqs :
           LoggedNow("GPG check validation failed", i) => ~Exists(disk', reqs[i].filename)
      /\ ~gpgCheck => DOMAIN disk \subseteq DOMAIN disk'
    ]_vars

\* C6 (amended): the failure of the GPG check of a downloaded file is logged
\* and its deletion is attempted: the file is absent once its response is
\* handled unless os.Remove fails, which is logged and leaves the file in
\* place; no file leaves the package directory in any other way, and none
\* without GPGCheck.
C6_SigFailureDeletesUnlessRemoveFails ==
  [][ /\ \A i \in DOMAIN reqs :
           LoggedNow("GPG check validation failed", i) =>
             IF LoggedNow("Error deleting", i)
             THEN /\ Exists(disk', reqs[i].filename)
                  /\ disk' = disk
             ELSE /\ ~Exists(disk', reqs[i].filename)
                  /\ FileId(disk, reqs[i].filename) \in removed'
      /\ \A n \in DOMAIN disk \ DOMAIN disk' :
           /\ gpgCheck
           /\ \E i \in DOMAIN reqs :
                /\ reqs[i].filename = n
                /\ LoggedNow("GPG check validation failed", i)
                /\ ~LoggedNow("Error deleting", i)
    ]_vars

\* C6 witness: one downloaded file failed the GPG check and was deleted,
\* another failed it and could not be deleted.
C6_Witness ==
  /\ gpgCheck
  /\ removed # {}
  /\ \E e \in errors : e.msg = "Error deleting"
  /\ \E e \in removed : ~Exists(disk, e.name)

\* C7 (as stated): when Sync returns, every package file of the package
\* directory that a catalog entry names has the size and checksum of such an
\* entry and, with GPGCheck, has passed the GPG check.
C7_OnlyVerifiedRemain ==
  pc = "done" =>
    \A n \in DOMAIN disk :
      (Ext(n) = "rpm" /\ \E p \in Pkgs : Base(p.href) = n) =>
        /\ \E p \in Pkgs :
             Base(p.href) = n /\ disk[n].size = p.size /\ disk[n].sum = p.sum
        /\ gpgCheck => FileId(disk, n) \in verified

Range(f) == { f[i] : i \in DOMAIN f }

\* C8: the rebuild starts only when every request has been attempted and its
\* one response handled; no download has touched the package directory
\* before the requests are built; and no file deleted after a failed GPG
\* check is written to the index.
C8_RebuildAfterDownloads ==
  /\ DownloadOver =>
       /\ todo = {} /\ inflight = {} /\ responses = {}
       /\ \A i \in DOMAIN reqs : consumed[i] = 1
  /\ ~Scheduled =>
       /\ inflight = {} /\ responses = {} /\ written = {}
       /\ disk = before
  /\ \A e \in Range(index) : e \notin removed

\* C8 witness: Sync has returned after deleting a downloaded file, and the
\* index lists another file.
C8_Witness ==
  /\ pc = "done"
  /\ removed # {}
  /\ index # << >>

\* C9: when Sync returns, the index holds exactly the package files of the
\* package directory, each once, whoever put them there.
C9_IndexIsFreshEnumeration ==
  pc = "done" =>
    /\ Range(index) = { FileId(disk, n) : n \in { m \in DOMAIN disk : Ext(m) = "rpm" } }
    /\ Len(index) = Cardinality(Range(index))

\* C9 witness: the index lists a file dropped in after the download phase
\* and a file that was there before the run and is in no catalog entry.
C9_Witness ==
  /\ pc = "done"
  /\ \E e \in Range(index) : e.by = "oob"
  /\ \E e \in Range(index) :
       e.by = "pre" /\ \A p \in Pkgs : Base(p.href) # e.name

\* A download has failed.
SomeDownloadFailed ==
  \/ \E r \in responses : r.error
  \/ \E e \in errors : e.msg = "Error downloading"

\* C10: after the failure of a download Sync has returned no error, the
\* download phase can go on, it ends only with every request attempted and
\* its response handled, and then the rebuild can run and Sync return nil.
C10_FailureIsLocal ==
  SomeDownloadFailed =>
    /\ pc \in { "download", "createrepo", "done", "panic" }
    /\ pc = "download" =>
         ENABLED (WorkerStart \/ (\E i \in DOMAIN reqs : WorkerFinish(i))
                    \/ HandleResponse \/ LoopExit)
    /\ DownloadOver => \A i \in DOMAIN reqs : consumed[i] = 1
    /\ pc = "createrepo" => ENABLED (Rebuild /\ pc' = "done")

\* C10 witness: Sync has returned after one download failed and another
\* succeeded, whose file is in the index.
C10_Witness ==
  /\ pc = "done"
  /\ \E i, j \in DOMAIN reqs :
       /\ [ msg |-> "Error downloading", key |-> reqs[i].key ] \in errors
       /\ [ msg |-> "Error downloading", key |-> reqs[j].key ] \notin errors
       /\ \E e \in Range(index) : e.by = "sync" /\ e.key = reqs[j].key

\* Sync has neither reconciled, scheduled, downloaded, deleted nor rebuilt.
NothingDone ==
  /\ files = << >> /\ packages = << >> /\ missing = << >>
  /\ reqs = << >> /\ todo = {} /\ inflight = {} /\ responses = {}
  /\ disk = before /\ written = {} /\ removed = {} /\ verified = {}
  /\ globbed = << >> /\ index = << >>
  /\ errors = {}

\* C11: when the acquisition of the catalog fails (metadata cache, primary
\* database, package list; also key ring, package directory and its
\* listing), Sync returns the error with no request built, no file deleted
\* or written and no index rebuilt; and Sync returns an error in no other
\* case, in particular never after a per-entry or per-job error was logged.
C11_AcquisitionFailureAborts ==
  /\ err # "nil" => pc = "error" /\ NothingDone
  /\ pc = "error" => err \in AcquireErrors /\ errors = {}
  /\ errors # {} => pc \in { "schedule", "download", "createrepo", "done", "panic" }

\* C11 witness: Sync has returned the error of the metadata cache, of the
\* primary database or of its package list, for a repository whose catalog
\* names a package and whose package directory holds a file of its name.
C11_Witness ==
  /\ pc = "error"
  /\ err \in { "cache", "primarydb", "packages" }
  /\ \E i \in DOMAIN primarydb : Exists(disk, Base(primarydb[i].href))

\* The configuration errors of a repository: no ID, or neither mirror list
\* nor base URL.
ConfigError(c) == c.ID = "" \/ (c.MirrorURL = "" /\ c.BaseURL = "")

C18_ReconcileLeavesDirectory ==
  /\ pc \in { "reconcile", "schedule" } =>
       /\ disk = before
       /\ written = {} /\ removed = {}
  /\ (pc = "download" /\ written = {}) => disk = before /\ removed = {}

\* C18 witness: reconciliation has put a corrupt package on the list of
\* missing packages and its local file is in place, unchanged.
C18_Witness ==
  /\ pc = "schedule"
  /\ \E p \in Pkgs :
       /\ IsCorrupt(p) /\ InMissing(p)
       /\ Exists(disk, Base(p.href)) /\ disk[Base(p.href)] = Local(p)

\* The place of a file name in the lexical order of the names.
Pos(name) == CHOOSE i \in 1..Len(NameOrder) : NameOrder[i] = name

\* C14: when Sync returns, the index is determined by the package directory
\* alone: it lists the package files of the directory, each as it is on
\* disk, in the order of their names, whatever the order in which they were
\* requested, downloaded or dropped in; a rebuild of the unchanged directory
\* writes the same index.
C14_IndexDeterminedByDirectory ==
  pc = "done" =>
    /\ { index[i].name : i \in DOMAIN index } = { n \in DOMAIN disk : Ext(n) = "rpm" }
    /\ \A i \in DOMAIN index : index[i] = FileId(disk, index[i].name)
    /\ \A i, j \in DOMAIN index : i < j => Pos(index[i].name) < Pos(index[j].name)
    /\ unparsable = {}

\* C14 witness: the index lists a downloaded file before the file that was
\* requested before it.
C14_Witness ==
  /\ pc = "done"
  /\ \E i, j \in DOMAIN reqs, k, l \in DOMAIN index :
       /\ i < j /\ l < k
       /\ index[k].name = reqs[i].filename /\ index[k].by = "sync"
       /\ index[l].name = reqs[j].filename /\ index[l].by = "sync"

\* C15 (as stated): no two requests of a run have the same destination, so
\* no two transfers in flight write the same file.
C15_DistinctDestinations ==
  /\ \A i, j \in DOMAIN reqs : i # j => reqs[i].filename # reqs[j].filename
  /\ \A i, j \in inflight : i # j => reqs[i].filename # reqs[j].filename

\* The local file of a package has the declared size and its checksum
\* cannot be validated: the package's checksum cannot be read, or its
\* algorithm is not supported.
IsUnverifiable(p) == SameSize(p) /\ ~ChecksumReadable(p)

\* C16 (as stated): once the requests are built, such a package is on the
\* list of missing packages and has a request.
C16_UnverifiableOneRequest ==
  Scheduled =>
    \A p \in Pkgs :
      IsUnverifiable(p) => InMissing(p) /\ Cardinality(RequestsFor(p)) = 1

\* C16 (amended): the failure is logged, the package is on the list of
\* missing packages and Sync goes on; the package has one request when the
\* algorithm is not supported, and none when its checksum cannot be read,
\* for then the building of the request fails on the same read, which is
\* logged too (or when its URL or the decoding of its checksum fails).
C16_UnverifiableRefetchedIfReadable ==
  Scheduled =>
    \A p \in Pkgs :
      IsUnverifiable(p) =>
        /\ IF p.sumErr THEN Logged("Failed to compute checksum", p)
                       ELSE Logged("Error validating checksum", p)
        /\ InMissing(p)
        /\ p.sumErr => Logged("Error reading checksum", p)
        /\ Cardinality(RequestsFor(p)) = IF PreDispatchFails(p) THEN 0 ELSE 1
        /\ pc \in { "download", "createrepo", "done", "panic" }

\* C16 witness: Sync has returned after a package whose checksum cannot be
\* read got no request, its local file of the declared size still in place.
C16_Witness ==
  /\ pc = "done"
  /\ \E p \in Pkgs :
       /\ IsUnverifiable(p) /\ p.sumErr
       /\ InMissing(p) /\ RequestsFor(p) = {}
       /\ Exists(disk, Base(p.href)) /\ disk[Base(p.href)] = Local(p)

\* C19: when a package file enumerated by the rebuild cannot be parsed, Sync
\* panics and does not return: the index holds the files enumerated before
\* the first such file and no other; Sync returns only from a rebuild that
\* parsed every enumerated file.
C19_UnparsableFilePanics ==
  /\ unparsable # {} =>
       /\ pc = "panic"
       /\ Len(index) < Len(globbed)
       /\ unparsable = { globbed[Len(index) + 1] }
       /\ \A i \in DOMAIN index :
            index[i].name = globbed[i] /\ globbed[i] \notin unparsable
  /\ pc = "done" => unparsable = {} /\ Len(index) = Len(globbed)

\* C19 witness: Sync has panicked on what a failed download left in place
\* of a package, after another download succeeded and was written to the
\* index.
C19_Witness ==
  /\ pc = "panic"
  /\ index # << >>
  /\ \E n \in unparsable, p \in Pkgs :
       /\ Base(p.href) = n
       /\ disk[n].size # p.size
       /\ [ msg |-> "Error downloading", key |-> p.key ] \in errors

\* The download of the i-th request has failed.
DownloadFailed(i) ==
  \/ \E r \in responses : r.req = i /\ r.error
  \/ [ msg |-> "Error downloading", key |-> reqs[i].key ] \in errors

\* C20 (as stated): a file that Sync has deleted was written by a download
\* of this run that succeeded, with GPGCheck, and failed the GPG check; no
\* file that was there before the run, named by the catalog or not, and no
\* file put there by another process is deleted: it is in place or a
\* download has overwritten it.
C20_DeletesOnlyBadDownloads ==
  /\ \A e \in removed :
       /\ gpgCheck
       /\ e.by = "sync"
       /\ \E i \in DOMAIN reqs :
            /\ reqs[i].filename = e.name /\ reqs[i].key = e.key
            /\ ~DownloadFailed(i)
       /\ \E i \in DOMAIN reqs :
            /\ reqs[i].filename = e.name
            /\ [ msg |-> "GPG check validation failed", key |-> reqs[i].key ] \in errors
  /\ \A n \in DOMAIN before : Exists(disk, n) \/ n \in written

====
